---- MODULE Spec2Model ----
(***************************************************************************)
(* Model of podcast-transcription-tools.                                   *)
(*                                                                         *)
(* The repository has two entry points that share no runtime state:        *)
(*   transcribe_podcast.py  download -> load model -> transcribe -> write  *)
(*                          -> remove the temporary audio file;            *)
(*   podcast_search.py      interactive search / select / list episodes    *)
(*                          over the signed catalog API, through a         *)
(*                          requests session with a urllib3 Retry policy.  *)
(* A behaviour of Spec is one run of one of the two programs (prog).       *)
(***************************************************************************)
EXTENDS Integers, Sequences, FiniteSets, TLC

VARIABLES
    prog,           \* which entry point this run executes
    \* ---- transcribe_podcast.py ----
    tpc,            \* position of main() / download_audio() / transcribe_audio()
    fs,             \* the file system: path -> file (or Absent)
    fs0,            \* the file system as it was when the run started
    url,            \* args.url
    outputArg,      \* args.output (None when the option is not given)
    outputPath,     \* output_path of main()
    remaining,      \* bytes of the response body not yet yielded by iter_content
    streamed,       \* sizes of the chunks yielded so far
    progress,       \* values of the tqdm counter after each progress.update
    modelLoaded,    \* whisper.load_model has returned a model
    inferCalls,     \* number of model.transcribe calls made
    asrText,        \* result["text"] of model.transcribe (NoText before)
    outputOpened,   \* open(output_path, "w") has been executed
    failedStage,    \* stage whose failure ended the pipeline ("none" if none)
    pending,        \* how the try block of main() was left
    successPrinted, \* the two success lines of main() were printed
    texit,          \* exit status of the process ("running" until it ends)
    \* ---- podcast_search.py ----
    dpc,            \* position of main(): the prompt it waits at, or "http"
    apiKey,         \* API_KEY (None when the variable is not set)
    apiSecret,      \* API_SECRET (None when the variable is not set)
    clock,          \* time.time(), in whole seconds
    podcasts,       \* podcasts of main(): the result of the last search
    displayed,      \* the <<number, podcast>> lines printed for that result
    episodes,       \* the episodes printed by the last selection
    call,           \* the latest catalog call (NoCall before the first)
    total,          \* Retry.total of the call's session: sends it may still fail
    headers,        \* the headers dict passed to session.get
    outcome,        \* what the latest send of the call ended in
    sends,          \* the sends of the current call, in order
    usedStamps,     \* get_headers invocations whose result earlier calls sent
    ncalls,         \* number of catalog calls started in the session
    stamps,         \* number of get_headers invocations so far
    lastPrompt,     \* prompt that read the last input
    lastInput,      \* the last line input() returned
    dexit           \* exit status of the process ("running" until it ends)

tvars == <<tpc, fs, fs0, url, outputArg, outputPath, remaining, streamed,
           progress, modelLoaded, inferCalls, asrText, outputOpened,
           failedStage, pending, successPrinted, texit>>

dvars == <<dpc, apiKey, apiSecret, clock, podcasts, displayed, episodes, call,
           total, headers, outcome, sends, usedStamps, ncalls, stamps,
           lastPrompt, lastInput, dexit>>

vars == <<prog, tvars, dvars>>

-----------------------------------------------------------------------------
(* Bounds of the model                                                     *)

\* Longest response body of the audio download, in chunks of ChunkSize.
MaxChunks == 2

\* Catalog calls (search_podcasts, get_episodes) in one interactive session.
MaxCalls == 2

\* Seconds the clock can advance during one session.
MaxClock == 2

\* Longest feeds list the catalog returns.
MaxResults == 7

-----------------------------------------------------------------------------
(* transcribe_podcast.py: values                                           *)

None == "None"
NoText == "<no result>"

\* chunk_size of response.iter_content
ChunkSize == 1024

\* output_dir / "temp_audio.mp3"
TempAudio == "transcripts/temp_audio.mp3"

\* A URL is the path component urlparse() extracts, as a sequence of tokens:
\* "/" and "." are single characters, any other token is a run of characters
\* holding neither.
Urls ==
    { <<"/", "pod", "/", "ep", ".", "mp3">>,
      <<"/", "temp_audio", ".", "mp3">>,
      <<"/", "pod", ".", "d", "/", "ep">>,
      <<"/", "pod", "/", ".", "mp3">> }

\* Values of --output: not given, a path of the caller's, the path main()
\* also uses for the downloaded audio.
OutputArgs == { None, "out.txt", TempAudio }

\* Texts the ASR collaborator can return.
Texts == { "hello world", "" }

BodyLens == { n \in 0..(MaxChunks * ChunkSize) :
                 \/ n % ChunkSize = 0
                 \/ n % ChunkSize = 1
                 \/ n % ChunkSize = ChunkSize - 1 }

Absent == [kind |-> "absent", size |-> 0, text |-> ""]
BytesFile(n) == [kind |-> "bytes", size |-> n, text |-> ""]
TextFile(t) == [kind |-> "text", size |-> 0, text |-> t]

Exists(f, p) == f[p].kind # "absent"

-----------------------------------------------------------------------------
(* get_output_filename                                                     *)

LastIndexOf(s, c) ==
    IF \E i \in 1..Len(s) : s[i] = c
    THEN CHOOSE i \in 1..Len(s) : s[i] = c /\ \A j \in (i+1)..Len(s) : s[j] # c
    ELSE 0

\* os.path.basename: what follows the last "/"
basename(p) == SubSeq(p, LastIndexOf(p, "/") + 1, Len(p))

\* os.path.splitext(...)[0]: cut at the last "." unless only dots precede it
splitext_root(b) ==
    LET dot == LastIndexOf(b, ".")
    IN  IF dot > 0 /\ \E i \in 1..(dot - 1) : b[i] # "."
        THEN SubSeq(b, 1, dot - 1)
        ELSE b

RECURSIVE Join(_)
Join(s) == IF s = <<>> THEN "" ELSE Head(s) \o Join(Tail(s))

get_output_filename(u) == Join(splitext_root(basename(u))) \o "_transcript.txt"

\* output_path of main(): args.output if given, else output_dir / derived name
ResolveOutputPath(u, o) ==
    IF o # None THEN o ELSE "transcripts/" \o get_output_filename(u)

Paths == { TempAudio } \cup { ResolveOutputPath(u, o) : u \in Urls, o \in OutputArgs }

-----------------------------------------------------------------------------
(* transcribe_podcast.py: the run                                          *)

\* The files a run can find: a temporary file an earlier, killed run left
\* behind, and transcripts of earlier runs.
InitialFileSystems ==
    { [p \in Paths |-> IF p = TempAudio THEN stale ELSE old] :
         stale \in { Absent, BytesFile(ChunkSize) },
         old \in { Absent, TextFile("old transcript") } }

InitT ==
    /\ tpc = "start"
    /\ fs \in (IF prog = "transcribe"
               THEN InitialFileSystems
               ELSE { [p \in Paths |-> Absent] })
    /\ fs0 = fs
    /\ url = <<>>
    /\ outputArg = None
    /\ outputPath = None
    /\ remaining = 0
    /\ streamed = <<>>
    /\ progress = <<>>
    /\ modelLoaded = FALSE
    /\ inferCalls = 0
    /\ asrText = NoText
    /\ outputOpened = FALSE
    /\ failedStage = "none"
    /\ pending = "none"
    /\ successPrinted = FALSE
    /\ texit = "running"

\* FailStage with the sys.exit(1) left out: main() goes on to its end
FailStage_NoExit(stage) ==
    /\ failedStage' = stage
    /\ pending' = "return"
    /\ tpc' = "finally"

\* A stage returned False: main() calls sys.exit(1), which unwinds into the
\* finally block.
FailStage(stage) ==
    /\ failedStage' = stage
    /\ pending' = "exit1"
    /\ tpc' = "finally"

\* The timeout argument of a request: <<>> when none is passed (requests then
\* waits without limit), <<seconds>> otherwise.
NoTimeout == <<>>

\* requests.get(url, stream=True), line 28
DownloadTimeout == NoTimeout

\* The server stops answering while the download waits for it: with a timeout
\* the wait ends in an exception (download_audio returns False), without one
\* the call never returns.
DownloadAudio_Silence ==
    IF DownloadTimeout = NoTimeout
    THEN tpc' = "blocked" /\ UNCHANGED <<failedStage, pending>>
    ELSE FailStage("download")

\* main(), lines 83-101: parse the arguments, make the output directory,
\* resolve the output path and the temporary path, enter the try block.
Main_Setup ==
    /\ prog = "transcribe" /\ tpc = "start"
    /\ \E u \in Urls, o \in OutputArgs :
          /\ url' = u
          /\ outputArg' = o
          /\ outputPath' = ResolveOutputPath(u, o)
    /\ tpc' = "download"
    /\ UNCHANGED <<prog, dvars, fs, fs0, remaining, streamed, progress, modelLoaded,
                   inferCalls, asrText, outputOpened, failedStage, pending,
                   successPrinted, texit>>

\* download_audio, lines 27-43: the GET, raise_for_status, the content-length
\* header, and open(output_path, 'wb').  Any Exception makes it return False.
DownloadAudio_Get ==
    /\ prog = "transcribe" /\ tpc = "download"
    /\ \/ \* the request, the status check or the header parse raises
          /\ FailStage("download")
          /\ UNCHANGED <<fs, remaining>>
       \/ \* open() raises: the temporary file is not created
          /\ FailStage("download")
          /\ UNCHANGED <<fs, remaining>>
       \/ \* no connection or no response headers ever arrive
          /\ DownloadAudio_Silence
          /\ UNCHANGED <<fs, remaining>>
       \/ \* the file is created or truncated; streaming starts
          /\ \E len \in BodyLens : remaining' = len
          /\ fs' = [fs EXCEPT ![TempAudio] = BytesFile(0)]
          /\ tpc' = "streaming"
          /\ UNCHANGED <<failedStage, pending>>
    /\ UNCHANGED <<prog, dvars, fs0, url, outputArg, outputPath, streamed, progress,
                   modelLoaded, inferCalls, asrText, outputOpened,
                   successPrinted, texit>>

Min(a, b) == IF a < b THEN a ELSE b

LastOr0(s) == IF s = <<>> THEN 0 ELSE s[Len(s)]

\* DownloadAudio_Chunk with progress.update(1024) in place of
\* progress.update(size)
DownloadAudio_Chunk_FixedUpdate ==
    /\ prog = "transcribe" /\ tpc = "streaming" /\ remaining > 0
    /\ \/ \* the transport or the write raises: the partial file stays
          /\ FailStage("download")
          /\ UNCHANGED <<fs, remaining, streamed, progress>>
       \/ \* the server stops sending in the middle of the body
          /\ DownloadAudio_Silence
          /\ UNCHANGED <<fs, remaining, streamed, progress>>
       \/ LET size == Min(ChunkSize, remaining)
          IN  /\ fs' = [fs EXCEPT ![TempAudio] = BytesFile(@.size + size)]
              /\ remaining' = remaining - size
              /\ streamed' = Append(streamed, size)
              /\ progress' = Append(progress, LastOr0(progress) + ChunkSize)
              /\ UNCHANGED <<tpc, failedStage, pending>>
    /\ UNCHANGED <<prog, dvars, fs0, url, outputArg, outputPath, modelLoaded,
                   inferCalls, asrText, outputOpened, successPrinted, texit>>

\* download_audio, lines 44-46: one iteration of the iter_content loop
DownloadAudio_Chunk ==
    /\ prog = "transcribe" /\ tpc = "streaming" /\ remaining > 0
    /\ \/ \* the transport or the write raises: the partial file stays
          /\ FailStage("download")
          /\ UNCHANGED <<fs, remaining, streamed, progress>>
       \/ \* the server stops sending in the middle of the body
          /\ DownloadAudio_Silence
          /\ UNCHANGED <<fs, remaining, streamed, progress>>
       \/ LET size == Min(ChunkSize, remaining)
          IN  /\ fs' = [fs EXCEPT ![TempAudio] = BytesFile(@.size + size)]
              /\ remaining' = remaining - size
              /\ streamed' = Append(streamed, size)
              /\ progress' = Append(progress, LastOr0(progress) + size)
              /\ UNCHANGED <<tpc, failedStage, pending>>
    /\ UNCHANGED <<prog, dvars, fs0, url, outputArg, outputPath, modelLoaded,
                   inferCalls, asrText, outputOpened, successPrinted, texit>>

\* download_audio, lines 47-49: the body is exhausted; return True
DownloadAudio_Done ==
    /\ prog = "transcribe" /\ tpc = "streaming" /\ remaining = 0
    /\ tpc' = "load"
    /\ UNCHANGED <<prog, dvars, fs, fs0, url, outputArg, outputPath, remaining,
                   streamed, progress, modelLoaded, inferCalls, asrText,
                   outputOpened, failedStage, pending, successPrinted, texit>>

\* transcribe_audio, line 68: whisper.load_model
TranscribeAudio_Load ==
    /\ prog = "transcribe" /\ tpc = "load"
    /\ \/ /\ FailStage("load")
          /\ UNCHANGED modelLoaded
       \/ /\ modelLoaded' = TRUE
          /\ tpc' = "infer"
          /\ UNCHANGED <<failedStage, pending>>
    /\ UNCHANGED <<prog, dvars, fs, fs0, url, outputArg, outputPath, remaining,
                   streamed, progress, inferCalls, asrText, outputOpened,
                   successPrinted, texit>>

\* transcribe_audio, line 71: model.transcribe(audio_path)
TranscribeAudio_Infer ==
    /\ prog = "transcribe" /\ tpc = "infer"
    /\ inferCalls' = inferCalls + 1
    /\ \/ /\ FailStage("inference")
          /\ UNCHANGED asrText
       \/ /\ \E t \in Texts : asrText' = t
          /\ tpc' = "persist_open"
          /\ UNCHANGED <<failedStage, pending>>
    /\ UNCHANGED <<prog, dvars, fs, fs0, url, outputArg, outputPath, remaining,
                   streamed, progress, modelLoaded, outputOpened,
                   successPrinted, texit>>

\* transcribe_audio, line 74: open(output_path, "w", encoding="utf-8")
TranscribeAudio_Open ==
    /\ prog = "transcribe" /\ tpc = "persist_open"
    /\ outputOpened' = TRUE
    /\ \/ \* open() raises: nothing is created or truncated
          /\ FailStage("persist")
          /\ UNCHANGED fs
       \/ /\ fs' = [fs EXCEPT ![outputPath] = TextFile("")]
          /\ tpc' = "persist_write"
          /\ UNCHANGED <<failedStage, pending>>
    /\ UNCHANGED <<prog, dvars, fs0, url, outputArg, outputPath, remaining, streamed,
                   progress, modelLoaded, inferCalls, asrText, successPrinted,
                   texit>>

\* transcribe_audio, lines 75-77, and main(), lines 107-111: write the text,
\* close the file, return True; main() prints the success lines and falls
\* out of the try block.
TranscribeAudio_Write ==
    /\ prog = "transcribe" /\ tpc = "persist_write"
    /\ \/ \* write() raises: the file stays truncated
          /\ FailStage("persist")
          /\ UNCHANGED <<fs, successPrinted>>
       \/ /\ fs' = [fs EXCEPT ![outputPath] = TextFile(asrText)]
          /\ successPrinted' = TRUE
          /\ pending' = "return"
          /\ tpc' = "finally"
          /\ UNCHANGED failedStage
    /\ UNCHANGED <<prog, dvars, fs0, url, outputArg, outputPath, remaining, streamed,
                   progress, modelLoaded, inferCalls, asrText, outputOpened,
                   texit>>

InTry ==
    { "download", "streaming", "blocked", "load", "infer", "persist_open",
      "persist_write" }

\* A KeyboardInterrupt (not an Exception: neither download_audio nor
\* transcribe_audio catches it) raised anywhere inside the try block.
Interrupt ==
    /\ prog = "transcribe" /\ tpc \in InTry
    /\ pending' = "KeyboardInterrupt"
    /\ tpc' = "finally"
    /\ UNCHANGED <<prog, dvars, fs, fs0, url, outputArg, outputPath, remaining,
                   streamed, progress, modelLoaded, inferCalls, asrText,
                   outputOpened, failedStage, successPrinted, texit>>

ExitStatus(p) ==
    CASE p = "return" -> "0"
      [] p = "exit1" -> "1"
      [] OTHER -> p

\* Main_Finally with the cleanup placed after the try block instead of in a
\* finally clause: it runs only when the block is left normally
Main_Finally_OnReturnOnly ==
    /\ prog = "transcribe" /\ tpc = "finally"
    /\ fs' = IF pending = "return" /\ Exists(fs, TempAudio)
             THEN [fs EXCEPT ![TempAudio] = Absent]
             ELSE fs
    /\ texit' = ExitStatus(pending)
    /\ tpc' = "done"
    /\ UNCHANGED <<prog, dvars, fs0, url, outputArg, outputPath, remaining, streamed,
                   progress, modelLoaded, inferCalls, asrText, outputOpened,
                   failedStage, pending, successPrinted>>

\* main(), lines 113-116: the finally block, then the process ends
Main_Finally ==
    /\ prog = "transcribe" /\ tpc = "finally"
    /\ fs' = IF Exists(fs, TempAudio)
             THEN [fs EXCEPT ![TempAudio] = Absent]
             ELSE fs
    /\ texit' = ExitStatus(pending)
    /\ tpc' = "done"
    /\ UNCHANGED <<prog, dvars, fs0, url, outputArg, outputPath, remaining, streamed,
                   progress, modelLoaded, inferCalls, asrText, outputOpened,
                   failedStage, pending, successPrinted>>

NextT ==
    \/ Main_Setup
    \/ DownloadAudio_Get
    \/ DownloadAudio_Chunk
    \/ DownloadAudio_Done
    \/ TranscribeAudio_Load
    \/ TranscribeAudio_Infer
    \/ TranscribeAudio_Open
    \/ TranscribeAudio_Write
    \/ Interrupt
    \/ Main_Finally

-----------------------------------------------------------------------------
(* podcast_search.py: values                                               *)

\* Retry(total=3, ...)
RetryTotal == 3

\* status_forcelist of the Retry object
status_forcelist == { 429, 500, 502, 503, 504 }

\* urllib3's Retry.RETRY_AFTER_STATUS_CODES; respect_retry_after_header is
\* left at its default, True
RETRY_AFTER_STATUS_CODES == { 413, 429, 503 }

\* podcasts[:5] of the display loop
TopN == 5

\* min(5, len(podcasts)) of the selection check
SelectLimit == 5

\* What one send of the request can end in: a failure below HTTP, or a
\* response (has: the JSON body of a 200 holds the feeds / items field).
NetError(k) == [kind |-> k, status |-> 0, retryAfter |-> FALSE, has |-> FALSE]
Response(st, ra, has) == [kind |-> "response", status |-> st, retryAfter |-> ra, has |-> has]
NoOutcome == [kind |-> "none", status |-> 0, retryAfter |-> FALSE, has |-> FALSE]

ConnectErrors == { "NewConnectionError", "ConnectTimeoutError" }
ReadErrors == { "ReadTimeoutError" }

\* session.get(..., timeout=10), lines 56 and 78
CatalogTimeout == <<10>>

\* The errors urllib3 raises when the timeout of a request runs out
TimeoutErrors == { "ConnectTimeoutError", "ReadTimeoutError" }

Outcomes ==
    { NetError(k) : k \in ConnectErrors \cup ReadErrors }
      \cup { Response(st, FALSE, FALSE) : st \in { 404, 413 } \cup status_forcelist }
      \cup { Response(413, TRUE, FALSE) }
      \cup { Response(200, FALSE, has) : has \in BOOLEAN }

\* The feeds the catalog returns, in server order.
Feeds(n) == [i \in 1..n |-> [id |-> 100 - i]]
ResultLens == { 0, 1, TopN - 2, TopN, MaxResults }

\* The items the catalog returns for a feed.
Items(n) == [i \in 1..n |-> [title |-> i]]

\* Parsed JSON bodies of a 200 response, with or without the field.
Bodies(kind, has) ==
    IF ~has THEN { [has |-> FALSE, list |-> <<>>] }
    ELSE IF kind = "search"
    THEN { [has |-> TRUE, list |-> Feeds(n)] : n \in ResultLens }
    ELSE { [has |-> TRUE, list |-> Items(n)] : n \in 0..2 }

\* response.json().get(field, [])
json_get(body) == IF body.has THEN body.list ELSE <<>>

\* Lines the user can type, as sequences of characters.
SearchInputs ==
    { <<"q">>, <<"Q">>, <<" ", "q", " ">>, <<"q", "q">>, <<"t", "e", "s", "t">>, <<>> }

SelectInputs ==
    { <<"b">>, <<"B">>, <<" ", "b">>, <<"q">>, <<>>, <<"a", "b", "c">>,
      <<"-", "1">>, <<"+", "2">>, <<"1", "0">>, <<"0", "3">> }
      \cup { <<d>> : d \in { "0", "1", "3", "5", "6", "8" } }

NoCall == [kind |-> "none", term |-> <<>>, feed |-> 0]

-----------------------------------------------------------------------------
(* str.strip, str.lower, int                                               *)

RECURSIVE lstrip(_)
lstrip(s) == IF s # <<>> /\ Head(s) = " " THEN lstrip(Tail(s)) ELSE s

RECURSIVE rstrip(_)
rstrip(s) ==
    IF s # <<>> /\ s[Len(s)] = " " THEN rstrip(SubSeq(s, 1, Len(s) - 1)) ELSE s

strip(s) == rstrip(lstrip(s))

LowerChar(c) ==
    CASE c = "Q" -> "q"
      [] c = "B" -> "b"
      [] OTHER -> c

lower(s) == [i \in 1..Len(s) |-> LowerChar(s[i])]

Digits == <<"0", "1", "2", "3", "4", "5", "6", "7", "8", "9">>

IsDigit(c) == \E i \in 1..Len(Digits) : Digits[i] = c

DigitVal(c) == (CHOOSE i \in 1..Len(Digits) : Digits[i] = c) - 1

Unsigned(s) == IF s # <<>> /\ s[1] \in { "+", "-" } THEN Tail(s) ELSE s

\* int(s) raises ValueError unless s is an optional sign and then digits
IsInt(s) ==
    /\ Unsigned(s) # <<>>
    /\ \A i \in 1..Len(Unsigned(s)) : IsDigit(Unsigned(s)[i])

RECURSIVE DecVal(_)
DecVal(d) ==
    IF d = <<>> THEN 0
    ELSE DecVal(SubSeq(d, 1, Len(d) - 1)) * 10 + DigitVal(d[Len(d)])

int(s) == IF s[1] = "-" THEN 0 - DecVal(Unsigned(s)) ELSE DecVal(Unsigned(s))

-----------------------------------------------------------------------------
(* get_headers                                                             *)

\* hashlib.sha1(...).hexdigest(), as a collision-free function of its input
sha1_hexdigest(x) == <<"sha1", x>>

\* The headers dict of one get_headers() invocation made at time `now`;
\* `stamp` is the ordinal of the invocation (it tells two dicts apart that
\* were built within the same second).
get_headers(now, stamp) ==
    [ date  |-> now,
      key   |-> apiKey,
      auth  |-> sha1_hexdigest(<<apiKey, apiSecret, now>>),
      agent |-> "PodcastSearch/1.0",
      stamp |-> stamp ]

NoHeaders == get_headers(0, 0)

-----------------------------------------------------------------------------
(* podcast_search.py: the session                                          *)

InitD ==
    /\ dpc = "startup"
    /\ apiKey \in (IF prog = "discovery" THEN { "key", None } ELSE { None })
    /\ apiSecret \in (IF prog = "discovery" THEN { "secret", None } ELSE { None })
    /\ clock = 0
    /\ podcasts = <<>>
    /\ displayed = <<>>
    /\ episodes = <<>>
    /\ call = NoCall
    /\ total = 0
    /\ headers = NoHeaders
    /\ outcome = NoOutcome
    /\ sends = <<>>
    /\ usedStamps = {}
    /\ ncalls = 0
    /\ stamps = 0
    /\ lastPrompt = "none"
    /\ lastInput = <<>>
    /\ dexit = "running"

\* main(), lines 118-120: the credential check
Main_Startup ==
    /\ prog = "discovery" /\ dpc = "startup"
    /\ IF apiKey = None
       THEN dpc' = "config_error" /\ dexit' = "1"
       ELSE dpc' = "search_prompt" /\ UNCHANGED dexit
    /\ UNCHANGED <<prog, tvars, apiKey, apiSecret, clock, podcasts, displayed,
                   episodes, call, total, headers, outcome, sends, usedStamps,
                   ncalls, stamps, lastPrompt, lastInput>>

\* BeginCall with the headers computed once and kept for the later calls
BeginCall_CachedHeaders(c, signings) ==
    /\ ncalls < MaxCalls
    /\ ncalls' = ncalls + 1
    /\ call' = c
    /\ total' = RetryTotal
    /\ stamps' = IF ncalls = 0 THEN stamps + signings ELSE stamps
    /\ headers' = IF ncalls = 0 THEN get_headers(clock, stamps + signings) ELSE headers
    /\ outcome' = NoOutcome
    /\ usedStamps' = usedStamps \cup { sends[i].headers.stamp : i \in 1..Len(sends) }
    /\ sends' = <<>>
    /\ dpc' = "http"

\* search_podcasts lines 53-56 / get_episodes lines 77-78: create_session()
\* gives the call a fresh Retry budget; get_headers() is invoked `signings`
\* times and the last dict is passed to session.get.
BeginCall(c, signings) ==
    /\ ncalls < MaxCalls
    /\ ncalls' = ncalls + 1
    /\ call' = c
    /\ total' = RetryTotal
    /\ stamps' = stamps + signings
    /\ headers' = get_headers(clock, stamps + signings)
    /\ outcome' = NoOutcome
    /\ usedStamps' = usedStamps \cup { sends[i].headers.stamp : i \in 1..Len(sends) }
    /\ sends' = <<>>
    /\ dpc' = "http"

\* IsQuitInput without the lower()
IsQuitInput_CaseSensitive(term) == term = <<"q">>

\* search_term.lower() == 'q'
IsQuitInput(term) == lower(term) = <<"q">>

\* main(), lines 124-130: the search prompt
SearchPrompt_Input ==
    /\ prog = "discovery" /\ dpc = "search_prompt"
    /\ \E inp \in SearchInputs :
          /\ lastInput' = inp
          /\ lastPrompt' = "search"
          /\ IF IsQuitInput(strip(inp))
             THEN /\ dpc' = "exited"
                  /\ dexit' = "0"
                  /\ UNCHANGED <<call, total, headers, outcome, sends, usedStamps,
                                 ncalls, stamps>>
             ELSE /\ BeginCall([kind |-> "search", term |-> strip(inp), feed |-> 0], 2)
                  /\ UNCHANGED dexit
    /\ UNCHANGED <<prog, tvars, apiKey, apiSecret, clock, podcasts, displayed,
                   episodes>>

\* is_retry retrying every error status
is_retry_AnyErrorStatus(o, budget) == o.status >= 400

\* Retry.is_retry: a response is retried when its status is in the
\* forcelist, or when it carries Retry-After, has a status of
\* RETRY_AFTER_STATUS_CODES and the budget is not zero.
is_retry(o, budget) ==
    \/ o.status \in status_forcelist
    \/ budget # 0 /\ o.retryAfter /\ o.status \in RETRY_AFTER_STATUS_CODES

\* Retried with status-triggered retries only
Retried_StatusOnly(o, budget) == o.kind = "response" /\ is_retry(o, budget)

\* Does urllib3 count this outcome against the Retry budget (Retry.increment)?
\* Connection errors and, for GET, read errors do (connect and read are left
\* at None, so only `total` limits them); a response does when is_retry.
Retried(o, budget) ==
    \/ o.kind \in ConnectErrors \cup ReadErrors
    \/ o.kind = "response" /\ is_retry(o, budget)

\* The requests exception session.get or raise_for_status ends in when the
\* outcome is final ("none": the response is returned and is no error).
\* The HTTPAdapter turns a MaxRetryError into ConnectTimeout, RetryError or
\* ConnectionError by its reason; raise_for_status raises HTTPError.
Raised(o, budget) ==
    CASE o.kind = "ConnectTimeoutError" -> "ConnectTimeout"
      [] o.kind \in (ConnectErrors \cup ReadErrors) \ { "ConnectTimeoutError" } -> "ConnectionError"
      [] o.kind = "response" /\ is_retry(o, budget) -> "RetryError"
      [] o.kind = "response" /\ o.status >= 400 -> "HTTPError"
      [] OTHER -> "none"

\* Exception classes of requests that are a ConnectionError, a Timeout
ConnectionErrorClasses == { "ConnectionError", "ConnectTimeout" }
TimeoutClasses == { "ConnectTimeout", "ReadTimeout" }
RequestExceptionClasses ==
    ConnectionErrorClasses \cup TimeoutClasses \cup { "HTTPError", "RetryError" }

\* ExceptClause without the last clause, except RequestException
ExceptClause_NoGeneric(exc) ==
    CASE exc \in { "ConnectionError", "ConnectTimeout" } -> "ConnectionError"
      [] exc \in { "ConnectTimeout", "ReadTimeout" } -> "Timeout"
      [] OTHER -> "uncaught"

\* The except clause that catches the exception, in the order of the source
\* ("uncaught": none does, and the exception leaves the function).
ExceptClause(exc) ==
    CASE exc \in ConnectionErrorClasses -> "ConnectionError"
      [] exc \in TimeoutClasses -> "Timeout"
      [] exc \in RequestExceptionClasses -> "RequestException"
      [] OTHER -> "uncaught"

\* An exception nothing catches ends the process with a traceback.
Crash ==
    /\ dpc' = "crashed"
    /\ dexit' = "1"

\* Continue with `break` in place of `continue` when nothing was found
Continue_BreakOnEmpty(result) ==
    IF call.kind = "search"
    THEN /\ podcasts' = result
         /\ IF result = <<>>
            THEN dpc' = "exited" /\ UNCHANGED displayed
            ELSE /\ displayed' = [i \in 1..Min(TopN, Len(result)) |->
                                    [number |-> (i - 1) + 1, podcast |-> result[i]]]
                 /\ dpc' = "select_prompt"
         /\ UNCHANGED episodes
    ELSE /\ episodes' = result
         /\ dpc' = "search_prompt"
         /\ UNCHANGED <<podcasts, displayed>>

\* Continue with the display loop running over podcasts instead of podcasts[:5]
Continue_DisplayAll(result) ==
    IF call.kind = "search"
    THEN /\ podcasts' = result
         /\ IF result = <<>>
            THEN dpc' = "search_prompt" /\ UNCHANGED displayed
            ELSE /\ displayed' = [i \in 1..Len(result) |->
                                    [number |-> (i - 1) + 1, podcast |-> result[i]]]
                 /\ dpc' = "select_prompt"
         /\ UNCHANGED episodes
    ELSE /\ episodes' = result
         /\ dpc' = "search_prompt"
         /\ UNCHANGED <<podcasts, displayed>>

\* main(), lines 132-139 after search_podcasts, lines 155-157 after get_episodes
Continue(result) ==
    IF call.kind = "search"
    THEN /\ podcasts' = result
         /\ IF result = <<>>
            THEN dpc' = "search_prompt" /\ UNCHANGED displayed
            ELSE /\ displayed' = [i \in 1..Min(TopN, Len(result)) |->
                                    [number |-> (i - 1) + 1, podcast |-> result[i]]]
                 /\ dpc' = "select_prompt"
         /\ UNCHANGED episodes
    ELSE /\ episodes' = result
         /\ dpc' = "search_prompt"
         /\ UNCHANGED <<podcasts, displayed>>

\* The end of search_podcasts / get_episodes once the outcome o is final:
\* lines 57-69 and 79-91.
Return(o) ==
    LET exc == Raised(o, total)
    IN  IF exc = "none"
        THEN /\ \E body \in Bodies(call.kind, o.has) : Continue(json_get(body))
             /\ UNCHANGED dexit
        ELSE IF ExceptClause(exc) = "uncaught"
        THEN Crash /\ UNCHANGED <<podcasts, displayed, episodes>>
        ELSE Continue(<<>>) /\ UNCHANGED dexit

\* One send of the call's request by the HTTPAdapter, and what urllib3 and
\* the caller do with its outcome.
Http_Send ==
    /\ prog = "discovery" /\ dpc = "http"
    /\ sends' = Append(sends, [headers |-> headers, at |-> clock])
    /\ \E dt \in 0..1 :
          /\ clock + dt <= MaxClock
          /\ clock' = clock + dt
    /\ \E o \in Outcomes :
          /\ outcome' = o
          /\ IF o.kind \in TimeoutErrors /\ CatalogTimeout = NoTimeout
             THEN \* a silent server and no timeout: the call never returns
                  /\ dpc' = "blocked"
                  /\ UNCHANGED <<total, podcasts, displayed, episodes, dexit>>
             ELSE IF Retried(o, total) /\ total > 0
             THEN \* Retry.increment, Retry.sleep, then the same request again
                  /\ total' = total - 1
                  /\ UNCHANGED <<dpc, podcasts, displayed, episodes, dexit>>
             ELSE /\ UNCHANGED total
                  /\ Return(o)
    /\ UNCHANGED <<prog, tvars, apiKey, apiSecret, call, headers, usedStamps,
                   ncalls, stamps, lastPrompt, lastInput>>

\* IsBackInput with 'q' also accepted at the selection prompt
IsBackInput_OrQuit(selection) == lower(selection) \in { <<"b">>, <<"q">> }

\* selection.lower() == 'b'
IsBackInput(selection) == lower(selection) = <<"b">>

\* InRange with <= for the upper limit
InRange_Inclusive(index, n) == 0 <= index /\ index <= Min(SelectLimit, n)

\* 0 <= index < min(5, len(podcasts))
InRange(index, n) == 0 <= index /\ index < Min(SelectLimit, n)

\* list[index] of Python: a negative index counts from the end
PyIndexOk(s, i) == 0 - Len(s) <= i /\ i < Len(s)

\* PyItem taking the typed number itself as the list index (the `- 1` lost)
PyItem_NumberAsIndex(s, i) == s[((i + 1) % Len(s)) + 1]

PyItem(s, i) == IF i >= 0 THEN s[i + 1] ELSE s[Len(s) + i + 1]

\* main(), lines 142-161: the selection prompt
SelectPrompt_Input ==
    /\ prog = "discovery" /\ dpc = "select_prompt"
    /\ \E inp \in SelectInputs :
          LET selection == strip(inp)
              stay == UNCHANGED <<dpc, call, total, headers, outcome, sends,
                                  usedStamps, ncalls, stamps, dexit>>
          IN  /\ lastInput' = inp
              /\ lastPrompt' = "select"
              /\ IF IsBackInput(selection)
                 THEN /\ dpc' = "search_prompt"
                      /\ UNCHANGED <<call, total, headers, outcome, sends, usedStamps,
                                     ncalls, stamps, dexit>>
                 ELSE IF ~IsInt(selection)
                 THEN stay      \* ValueError: "Please enter a valid number"
                 ELSE IF ~InRange(int(selection) - 1, Len(podcasts))
                 THEN stay      \* "Invalid selection"
                 ELSE IF ~PyIndexOk(podcasts, int(selection) - 1)
                 THEN \* IndexError
                      /\ Crash
                      /\ UNCHANGED <<call, total, headers, outcome, sends,
                                     usedStamps, ncalls, stamps>>
                 ELSE /\ BeginCall([kind |-> "episodes", term |-> <<>>,
                                    feed |-> PyItem(podcasts, int(selection) - 1).id], 1)
                      /\ UNCHANGED dexit
    /\ UNCHANGED <<prog, tvars, apiKey, apiSecret, clock, podcasts, displayed,
                   episodes>>

NextD ==
    \/ Main_Startup
    \/ SearchPrompt_Input
    \/ Http_Send
    \/ SelectPrompt_Input

-----------------------------------------------------------------------------
Init ==
    /\ prog \in { "transcribe", "discovery" }
    /\ InitT
    /\ InitD

Next == NextT \/ NextD

Spec == Init /\ [][Next]_vars

-----------------------------------------------------------------------------
(* Properties of the transcription flow                                    *)

\* C1: once the run has returned or exited, on every exit path (success,
\* download failure, model-load or inference failure, transcript-write
\* failure, an interruption inside the pipeline), the temporary audio file
\* transcripts/temp_audio.mp3 does not exist.
TempAudioRemovedOnExit ==
    texit # "running" => ~Exists(fs, TempAudio)

\* The run was interrupted in the middle of the download, with part of the
\* body already written to the temporary file, and has ended.
TempAudioRemovedOnExit_Witness ==
    /\ texit = "KeyboardInterrupt"
    /\ streamed # <<>>
    /\ remaining > 0
    /\ ~Exists(fs, TempAudio)

\* C2: whenever the flow reports success (success lines printed, exit code
\* 0), then after the run has finished, cleanup included, a file exists at
\* the output path and holds exactly the text the ASR collaborator returned;
\* for every output path, given with --output or derived from the URL.
TranscriptSavedOnSuccess ==
    (texit = "0" /\ successPrinted) =>
        /\ Exists(fs, outputPath)
        /\ fs[outputPath] = TextFile(asrText)

\* download, load, inference and persist have all succeeded
AllStagesSucceeded ==
    /\ failedStage = "none"
    /\ tpc \in { "finally", "done" }
    /\ remaining = 0
    /\ modelLoaded
    /\ inferCalls = 1
    /\ asrText \in Texts
    /\ outputOpened
    /\ tpc = "finally" => fs[outputPath] = TextFile(asrText)

\* C3: the flow exits with code 1 whenever the download stage or the
\* transcription stage (model load, inference, writing the transcript)
\* fails; it prints the transcript path and exits with code 0 only when
\* download, transcription and persist have all succeeded; no failed stage
\* ever ends in the success message.
ExitCodeFollowsStages ==
    /\ (texit # "running" /\ failedStage # "none") => texit = "1"
    /\ failedStage # "none" => ~successPrinted
    /\ successPrinted => AllStagesSucceeded
    /\ texit = "0" => successPrinted /\ AllStagesSucceeded

\* Writing the transcript failed after download and inference had
\* succeeded, and the process has ended.
ExitCodeFollowsStages_Witness ==
    /\ texit = "1"
    /\ failedStage = "persist"
    /\ asrText \in Texts

-----------------------------------------------------------------------------
(* Properties of the discovery flow                                        *)

\* the latest catalog call has returned to main()
CallFinished == ncalls > 0 /\ dpc \notin { "http", "crashed" }

\* what the latest catalog call returned
LastResult == IF call.kind = "search" THEN podcasts ELSE episodes

\* the exception the latest call ended in inside the function ("none": none)
LastRaised == Raised(outcome, total)

\* C4: a catalog failure never ends the session: whenever search_podcasts
\* fails or returns no podcasts the flow goes back to the search prompt
\* without entering the selection state; whenever get_episodes fails after a
\* valid selection the flow goes back to the search prompt; Exited is never
\* reached as a consequence of a catalog error.
CatalogFailureKeepsSession ==
    [][ (dpc = "http" /\ dpc' # "http") =>
            /\ dexit' = "running"
            /\ dpc' \in { "search_prompt", "select_prompt" }
            /\ (call.kind = "search"
                  /\ (Raised(outcome', total') # "none" \/ podcasts' = <<>>))
                   => dpc' = "search_prompt"
            /\ call.kind = "episodes" => dpc' = "search_prompt"
      ]_vars

\* get_episodes failed after a valid selection and the flow is back at the
\* search prompt.
CatalogFailureKeepsSession_Witness ==
    /\ dpc = "search_prompt"
    /\ call.kind = "episodes"
    /\ LastRaised # "none"
    /\ dexit = "running"

\* C5: search_podcasts and get_episodes never raise for any HTTP failure
\* class (connection error, timeout, non-2xx status, retry budget
\* exhausted): they return an empty list; on a successful response whose
\* body lacks the feeds / items field they return an empty list too.
CatalogCallsDegradeToEmpty ==
    /\ dpc # "crashed"
    /\ (CallFinished /\ LastRaised # "none") => LastResult = <<>>
    /\ (CallFinished /\ LastRaised = "none" /\ ~outcome.has) => LastResult = <<>>

\* get_episodes ran out of retries on a 503 and has returned.
CatalogCallsDegradeToEmpty_Witness ==
    /\ CallFinished
    /\ call.kind = "episodes"
    /\ LastRaised = "RetryError"
    /\ outcome.status = 503
    /\ episodes = <<>>

\* C6: in the selection state with N results, every input that is neither
\* 'b'/'B' nor an integer n with 1 <= n <= min(5, N) keeps the flow in the
\* selection state with the same result list and issues no catalog request;
\* 'b' or 'B' always returns to the search prompt without a catalog request.
\* (Inputs are taken as trimmed of surrounding whitespace.)
SelectionValidation ==
    [][ dpc = "select_prompt" =>
            LET sel == strip(lastInput')
                isBack == sel \in { <<"b">>, <<"B">> }
                isPick == /\ IsInt(sel)
                          /\ 1 <= int(sel)
                          /\ int(sel) <= Min(5, Len(podcasts))
            IN  /\ isBack =>
                      /\ dpc' = "search_prompt"
                      /\ ncalls' = ncalls /\ sends' = sends /\ stamps' = stamps
                /\ (~isBack /\ ~isPick) =>
                      /\ dpc' = "select_prompt"
                      /\ podcasts' = podcasts /\ displayed' = displayed
                      /\ ncalls' = ncalls /\ sends' = sends /\ stamps' = stamps
                      /\ call' = call
      ]_vars

\* "6" was typed with exactly 5 results on display, and the flow still
\* waits at the selection prompt.
SelectionValidation_Witness ==
    /\ dpc = "select_prompt"
    /\ lastPrompt = "select"
    /\ lastInput = <<"6">>
    /\ Len(podcasts) = 5

\* C7: at the search prompt the input 'q' or 'Q' (after trimming whitespace)
\* moves the flow to Exited without any catalog request; when it is the
\* first input of the session no network call is ever made.
QuitAtSearchPrompt ==
    [][ /\ (dpc = "search_prompt" /\ strip(lastInput') \in { <<"q">>, <<"Q">> }) =>
              /\ dpc' = "exited"
              /\ dexit' = "0"
              /\ ncalls' = ncalls /\ sends' = sends /\ stamps' = stamps
              /\ lastPrompt = "none" => (ncalls' = 0 /\ sends' = <<>> /\ stamps' = 0)
        /\ dpc # "exited"
      ]_vars

\* 'Q' was the first input of the session and the flow has exited.
QuitAtSearchPrompt_Witness ==
    /\ dpc = "exited"
    /\ lastInput = <<"Q">>
    /\ ncalls = 0
    /\ sends = <<>>

ResendPending == dpc = "http" /\ sends # <<>>

\* C8 as stated: for one catalog GET the client re-sends only when the
\* response status is in {429, 500, 502, 503, 504}, at most 3 times (4 sends
\* in total); once the budget is exhausted the last failure is surfaced; a
\* response with any other status is never retried.
RetryOnlyOnListedStatus ==
    /\ ResendPending =>
          /\ outcome.kind = "response"
          /\ outcome.status \in { 429, 500, 502, 503, 504 }
    /\ Len(sends) <= 4
    /\ (CallFinished /\ Len(sends) = 4 /\ outcome.status \in { 429, 500, 502, 503, 504 })
          => LastRaised # "none"

\* C8 as amended: the client re-sends after a response whose status is in
\* {429, 500, 502, 503, 504}, after a 413 response that carries Retry-After,
\* and after a connection error or read timeout, and in no other case; at
\* most 3 times (4 sends in total); once the budget is exhausted the last
\* failure is surfaced to the caller; a response with any other status and
\* no Retry-After header is never retried.
RetryPolicy ==
    /\ ResendPending =>
          /\ \/ outcome.kind = "response" /\ outcome.status \in { 429, 500, 502, 503, 504 }
             \/ outcome.kind = "response" /\ outcome.status = 413 /\ outcome.retryAfter
             \/ outcome.kind \in { "NewConnectionError", "ConnectTimeoutError", "ReadTimeoutError" }
          /\ Len(sends) <= 3
    /\ Len(sends) <= 4
    /\ (CallFinished /\ Len(sends) = 4 /\ (outcome.kind # "response" \/ outcome.status >= 400))
          => /\ LastRaised \in { "RetryError", "ConnectionError", "ConnectTimeout", "HTTPError" }
             /\ LastResult = <<>>
    /\ (CallFinished /\ outcome.kind = "response" /\ outcome.status \in { 429, 500, 502, 503, 504 })
          => Len(sends) = 4 /\ LastRaised = "RetryError"

\* The fourth send of a call was answered 503 too: the budget is exhausted
\* and the call has ended in RetryError.
RetryPolicy_Witness ==
    /\ CallFinished
    /\ Len(sends) = 4
    /\ outcome.status = 503
    /\ LastRaised = "RetryError"

NetworkFailures == { "NewConnectionError", "ConnectTimeoutError", "ReadTimeoutError" }

HeadersFreshPerSend ==
    /\ \A i, j \in 1..Len(sends) :
          i # j => sends[i].headers.stamp # sends[j].headers.stamp
    /\ \A i \in 1..Len(sends) : sends[i].headers.stamp \notin usedStamps

\* C10 as amended: the authentication headers are computed once per catalog
\* call (search_podcasts, get_episodes), immediately before its first send,
\* and never reused by a later call: every send of a call, each automatic
\* retry re-send included, carries the headers generated for that call,
\* whose timestamp is the time of the call's first send.
HeadersFreshPerCall ==
    sends # <<>> =>
        /\ \A i \in 1..Len(sends) :
              /\ sends[i].headers = headers
              /\ headers.date <= sends[i].at
        /\ headers.date = sends[1].at
        /\ headers.stamp = stamps
        /\ headers.stamp \notin usedStamps
        /\ headers.auth = sha1_hexdigest(<<apiKey, apiSecret, headers.date>>)

\* The second call of a session re-sent its request a second later, with
\* the headers of its first send.
HeadersFreshPerCall_Witness ==
    /\ ncalls = 2
    /\ Len(sends) >= 2
    /\ sends[2].at > headers.date
    /\ sends[2].headers = sends[1].headers

\* C11: every HTTP request of either flow carries a finite timeout, so a server
\* that never responds makes the request end in a timeout error: neither flow
\* is ever left waiting without limit inside a request.
RequestsNeverBlock ==
    /\ tpc # "blocked"
    /\ dpc # "blocked"

\* C12: when the API key or the API secret is absent, the discovery flow ends
\* at startup with exit code 1: no prompt is shown, get_headers() is never
\* invoked and no request is sent.
MissingCredentialStopsAtStartup ==
    (prog = "discovery" /\ (apiKey = None \/ apiSecret = None)) =>
        /\ dpc \in { "startup", "config_error" }
        /\ dpc = "config_error" => dexit = "1"
        /\ lastPrompt = "none"
        /\ stamps = 0
        /\ sends = <<>>

\* C13: a search result of N >= 1 podcasts is displayed as its first min(N, 5)
\* elements, in server order, numbered 1..min(N, 5) without gaps or repeats;
\* of a 7-element result only entries 1 to 5 are displayed.
DisplayTruncatedToFive ==
    podcasts # <<>> =>
        /\ Len(displayed) = Min(Len(podcasts), 5)
        /\ \A i \in 1..Len(displayed) :
              /\ displayed[i].number = i
              /\ displayed[i].podcast = podcasts[i]
        /\ Len(podcasts) = 7 =>
              { displayed[i].number : i \in 1..Len(displayed) } = 1..5

DisplayTruncatedToFive_Witness ==
    /\ dpc = "select_prompt"
    /\ Len(podcasts) = 7
    /\ Len(displayed) = 5
    /\ displayed[5].podcast = podcasts[5]

\* C14: the stages of the transcription flow run in the order download, model
\* load, inference, persist; when the download fails the model is never
\* loaded, inference is never invoked, and when the run goes to cleanup
\* nothing has been written to the output path.
StagesInOrder ==
    /\ modelLoaded => (remaining = 0 /\ tpc \notin { "start", "download", "streaming", "blocked" })
    /\ inferCalls > 0 => modelLoaded
    /\ outputOpened => (inferCalls > 0 /\ asrText # NoText)
    /\ failedStage = "download" =>
          /\ ~modelLoaded
          /\ inferCalls = 0
          /\ ~outputOpened
          /\ tpc = "finally" => fs[outputPath] = fs0[outputPath]

\* The input parses as an integer n with 1 <= n <= min(5, N).
ValidPick(inp, N) ==
    /\ IsInt(strip(inp))
    /\ 1 <= int(strip(inp))
    /\ int(strip(inp)) <= Min(5, N)

\* C15: at the selection prompt with N results, an input that parses as an
\* integer n with 1 <= n <= min(5, N) starts exactly one episode request, for
\* the feed id of the podcast displayed under n (the n-th element of the
\* result list); when that request is over the flow is at the search prompt,
\* not at the selection prompt.
ValidPickRequestsEpisodes ==
    [][ /\ (dpc = "select_prompt" /\ ValidPick(lastInput', Len(podcasts))) =>
              LET n == int(strip(lastInput'))
              IN  /\ ncalls' = ncalls + 1
                  /\ dpc' = "http"
                  /\ call'.kind = "episodes"
                  /\ call'.feed = podcasts[n].id
                  /\ displayed[n].number = n
                  /\ call'.feed = displayed[n].podcast.id
        /\ (dpc = "http" /\ call.kind = "episodes") =>
              /\ ncalls' = ncalls
              /\ call' = call
              /\ dpc' \in { "http", "search_prompt" }
      ]_vars

ValidPickRequestsEpisodes_Witness ==
    /\ dpc = "search_prompt"
    /\ lastPrompt = "select"
    /\ Len(podcasts) = 7
    /\ ValidPick(lastInput, Len(podcasts))
    /\ int(strip(lastInput)) = 5
    /\ call.kind = "episodes"
    /\ call.feed = podcasts[5].id
    /\ ncalls = 2
    /\ Len(sends) = 2

RECURSIVE SumSeq(_)
SumSeq(s) == IF s = <<>> THEN 0 ELSE s[1] + SumSeq(Tail(s))

\* C16: during download_audio the reported bytesTransferred never decreases
\* from one progress update to the next; after a successful fetch the last
\* reported value equals the sum of the sizes of the chunks streamed, which
\* equals the byte size of the destination file.
ProgressTracksBytes ==
    /\ \A i \in 1..(Len(progress) - 1) : progress[i] <= progress[i + 1]
    /\ Len(progress) = Len(streamed)
    /\ tpc \in { "load", "infer" } =>
          /\ LastOr0(progress) = SumSeq(streamed)
          /\ fs[TempAudio].kind = "bytes"
          /\ fs[TempAudio].size = SumSeq(streamed)

ProgressTracksBytes_Witness ==
    /\ tpc = "load"
    /\ Len(progress) = 2
    /\ progress[1] = ChunkSize
    /\ progress[2] = ChunkSize + 1
    /\ fs[TempAudio].size = ChunkSize + 1
    /\ fs0[TempAudio] = BytesFile(ChunkSize)

\* C17: the discovery flow enters Exited only from the search prompt, on the
\* input 'q' or 'Q'; at the selection prompt the input 'q' is an invalid
\* selection: the flow stays at the selection prompt, starts no request and
\* does not exit.
QuitOnlyFromSearchPrompt ==
    [][ /\ (dpc # "exited" /\ dpc' = "exited") =>
              /\ dpc = "search_prompt"
              /\ lastPrompt' = "search"
              /\ strip(lastInput') \in { <<"q">>, <<"Q">> }
        /\ (dpc = "select_prompt" /\ lastPrompt' = "select"
                /\ strip(lastInput') \in { <<"q">>, <<"Q">> }) =>
              /\ dpc' = "select_prompt"
              /\ ncalls' = ncalls
              /\ dexit' = "running"
      ]_vars

\* 'q' was typed at the selection prompt: the flow is at that prompt again
QuitOnlyFromSearchPrompt_Witness ==
    /\ dpc = "select_prompt"
    /\ lastPrompt = "select"
    /\ strip(lastInput) = <<"q">>
    /\ dexit = "running"

\* C18: when the download, the model load or inference fails, the file at the
\* output path is exactly as it was before the run (not created, truncated or
\* modified); the output path is opened for writing only after inference has
\* returned a result.
FailureLeavesOutputUntouched ==
    /\ failedStage \in { "download", "load", "inference" } =>
          /\ fs[outputPath] = fs0[outputPath]
          /\ ~outputOpened
    /\ outputOpened => (inferCalls > 0 /\ asrText # NoText)

====
